---- MODULE Spec2Model ----
(***************************************************************************)
(* DropboxLoader (src/dropbox_langchain/dropbox_files.py): the target      *)
(* resolution, folder enumeration, per-file fetch and extraction, and the  *)
(* accumulators invalid_files / errors / progress.                         *)
(*                                                                         *)
(* The storage client and the format extractors are the environment: each  *)
(* call's outcome (a fault, a listing page, the extracted text) is drawn    *)
(* from a small set when the call is made, and logged in `calls`.           *)
(***************************************************************************)
EXTENDS Naturals, Sequences, FiniteSets, TLC

VARIABLES
    given,            \* the constructor's arguments folder_path, file_paths, file_path
    auth,             \* self.auth: a function from the field names present to tokens
    app_creds,        \* whether self.app_key and self.app_secret are both given
    is_team_folder,   \* self.is_team_folder
    folder_path,      \* self.folder_path
    file_paths,       \* self.file_paths
    file_path,        \* self.file_path
    invalid_files,    \* self.invalid_files
    errors,           \* self.errors
    progress,         \* self.progress
    pc,               \* where the running load() is; "ready" when no load() runs
    loads,            \* number of load() calls started
    args,             \* load(): the local args
    dbx,              \* load(): the sessions established and the client chosen
    files,            \* _load_files_from_folder_path: the local files (last page)
    paths,            \* the local file_paths of the folder and list loops
    idx,              \* position of the for loop of _load_files_from_paths
    file_documents,   \* the local file_documents of _load_files_from_paths
    result,           \* what the last load() returned
    raised,           \* the exception the last load() ended with, "none" if it returned
    calls,            \* storage and extractor calls of the running load(), in order
    base,             \* lengths of invalid_files, errors, progress when load() was called
    client            \* the caller's logMessage or get_details call since the last load()

vars == <<given, auth, app_creds, is_team_folder, folder_path, file_paths, file_path,
          invalid_files, errors, progress, pc, loads, args, dbx, files, paths,
          idx, file_documents, result, raised, calls, base, client>>

----------------------------------------------------------------------------
(* Bounds of the exploration *)

\* longest list handed to file_paths
MaxFiles == 2
\* most page requests one enumeration is given before the last page
MaxPages == 2
\* most load() calls on one loader
MaxLoads == 2
\* a further load() is explored only from a loader whose last load() returned
\* and whose progress trail is this short
MaxTrail == 1

----------------------------------------------------------------------------
(* Python's None and a present value *)

None == [some |-> FALSE]
Some(v) == [some |-> TRUE, val |-> v]

----------------------------------------------------------------------------
(* Paths.  A path is its parent segments and its final segment; the final   *)
(* segment is kept as the parts between its dots, so "x.tar.gz" is          *)
(* <<"x","tar","gz">> and ".txt" is <<"","txt">>.                          *)

Path(dir, name) == [dir |-> dir, name |-> name]

P_pdf == Path(<<"docs">>, <<"a", "pdf">>)
P_txt == Path(<<"notes">>, <<"meeting", "txt">>)
P_paper == Path(<<>>, <<"n", "paper">>)
P_exe == Path(<<>>, <<"b", "exe">>)
P_PDF == Path(<<"docs">>, <<"A", "PDF">>)
\* the paths the single-file targets and the listings are made of
FilePaths == {P_pdf, P_txt, P_paper, P_exe, P_PDF}

\* further paths, loaded as single files: one of each other allow-listed
\* extension, a mixed-case one, and names without a suffix
OtherPaths ==
    {Path(<<"w">>, <<"c", e>>) :
        e \in {"md", "htm", "html", "docx", "xls", "xlsx", "pptx", "rtf", "Docx"}}
    \cup {Path(<<>>, <<"", "txt">>), Path(<<>>, <<"README">>),
          Path(<<>>, <<"x", "tar", "gz">>), Path(<<>>, <<"y", "">>)}

ALLOWED_EXTENSIONS ==
    {"md", "htm", "html", "docx", "xls", "xlsx", "pptx", "pdf", "rtf", "txt", "paper"}

\* pathlib's PurePath.suffix of the final segment, with '.' removed:
\* the part after the last dot, empty when there is no dot, when the
\* only dot leads the name, or when the name ends with the dot.
Suffix(name) ==
    IF Len(name) < 2 THEN ""
    ELSE IF Len(name) = 2 /\ name[1] = "" THEN ""
    ELSE name[Len(name)]

\* pathlib's PurePath.stem: the final segment without its suffix
Stem(name) ==
    IF Suffix(name) = "" THEN name ELSE SubSeq(name, 1, Len(name) - 1)

\* file_extension in ALLOWED_EXTENSIONS, as both _load_file and the
\* enumeration test it
IsAllowed(name) == Suffix(name) \in ALLOWED_EXTENSIONS

\* the source link of _load_file
Locate(p) == [folders |-> p.dir, preview |-> p.name]

\* f"{temp_dir}/{file_name}"
DownloadPath(p) == [folders |-> <<"tmp">>, preview |-> Stem(p.name)]

----------------------------------------------------------------------------
(* Texts and documents *)

NUL == "\\x00"

\* what an extractor may read out of a file
T_plain == <<"h", "i">>
T_nul == <<" ", NUL, "h", NUL, NUL, "w", " ">>
Texts == {T_plain, T_nul}

\* the documents a multi-document extractor (PDF pages, a delegate loader) may give
TextSeqs == {<<>>, <<T_plain, T_nul>>}

\* langchain's Document: page_content and the metadata source, kind, page
\* (page 0: no page entry; the filename entry of text documents is left out)
Document(content, source, kind, page) ==
    [page_content |-> content, source |-> source, kind |-> kind, page |-> page]

RECURSIVE LStrip(_)
LStrip(t) == IF t # <<>> /\ Head(t) = " " THEN LStrip(Tail(t)) ELSE t

RECURSIVE RStrip(_)
RStrip(t) ==
    IF t # <<>> /\ t[Len(t)] = " " THEN RStrip(SubSeq(t, 1, Len(t) - 1)) ELSE t

\* str.strip(): leading and trailing whitespace removed (NUL is no whitespace)
Strip(t) == RStrip(LStrip(t))

\* str.replace('\x00', ' ')
ReplaceNullDropping(t) == SelectSeq(t, LAMBDA c : c # NUL)
ReplaceNull(t) == [i \in 1..Len(t) |-> IF t[i] = NUL THEN " " ELSE t[i]]

\* the loop "for doc in file_documents: doc.page_content = ..." of _load_file
StripNullBytes(docs) ==
    [i \in 1..Len(docs) |-> [docs[i] EXCEPT !.page_content = ReplaceNull(@)]]

----------------------------------------------------------------------------
(* The outcome accumulator: acc is [invalid_files, errors, progress] *)

\* level: Literal['INFO', 'DEBUG', 'WARNING']
LogLevels == {"INFO", "DEBUG", "WARNING"}

\* what the constructor of LogStatement raises for a level outside LogLevels
ValidationError == [type |-> "ValidationError"]

\* LogStatement(message=message, level=level): pydantic validates the level
LogStatement(message, level) ==
    IF level \in LogLevels
    THEN [type |-> "LogStatement", message |-> message, level |-> level]
    ELSE ValidationError

\* logMessage: WARNING entries go to errors too, every entry goes to progress.
\* A level outside LogLevels takes no branch before the LogStatement for
\* progress is built, which raises: the call ends with that exception (the
\* field raised of what is given back) and the accumulators are as they were
logMessageErrorsOnly(acc, message, level) ==
    LET statement == LogStatement(message, level)
    IN  IF statement.type = "ValidationError"
        THEN [invalid_files |-> acc.invalid_files, errors |-> acc.errors,
              progress |-> acc.progress, raised |-> "ValidationError"]
        ELSE IF level = "WARNING"
        THEN [acc EXCEPT !.errors = Append(@, statement)]
        ELSE [acc EXCEPT !.progress = Append(@, statement)]
logMessage(acc, message, level) ==
    LET statement == LogStatement(message, level)
    IN  IF statement.type = "ValidationError"
        THEN [invalid_files |-> acc.invalid_files, errors |-> acc.errors,
              progress |-> acc.progress, raised |-> "ValidationError"]
        ELSE [acc EXCEPT
                !.errors = IF level = "WARNING" THEN Append(@, statement) ELSE @,
                !.progress = Append(@, statement)]

\* _error_logger with a str error
error_logger(acc, error, action, entity_type) ==
    logMessage(acc, [message |-> error.text, file |-> error.file,
                     action |-> action, entity_type |-> entity_type], "WARNING")

----------------------------------------------------------------------------
(* The environment's answer to one file: o is [fetch, extract, texts].      *)
(* fetch: the download or export call ("ok", or the DropboxException it     *)
(* raised); extract: the extraction routine ("ok" or "fault", an exception  *)
(* that is no DropboxException); texts: the texts the routine reads, for a  *)
(* PDF that faults the pages read before the fault.                         *)

\* the DropboxExceptions a call of the storage client raises: an ApiError
\* (like an AuthError or a RateLimitError) has the attribute "error", an
\* HttpError (like an InternalServerError, a BadInputError or the base class)
\* has none
StorageFaults == {"ApiError", "HttpError"}
HasError(exc) == exc = "ApiError"

\* what a handler that reads error.error ends with when the attribute is missing
AttributeError == [type |-> "AttributeError"]

Outcome(fetch, extract, texts) == [fetch |-> fetch, extract |-> extract, texts |-> texts]

Outcomes(ext) ==
    IF ext \notin ALLOWED_EXTENSIONS THEN {Outcome("none", "none", <<>>)}
    ELSE {Outcome(exc, "none", <<>>) : exc \in StorageFaults}
         \cup (IF ext = "pdf"
               THEN {Outcome("ok", e, ts) : e \in {"ok", "fault"}, ts \in TextSeqs}
               ELSE IF ext \in {"txt", "htm", "html", "rtf"}
               THEN {Outcome("ok", "fault", <<>>)}
                    \cup {Outcome("ok", "ok", <<t>>) : t \in Texts}
               ELSE {Outcome("ok", "fault", <<>>)}
                    \cup {Outcome("ok", "ok", ts) : ts \in TextSeqs})

----------------------------------------------------------------------------
(* The extraction routines.  Each gives [acc, docs, raised].                *)

Extracted(acc, docs, exc) == [acc |-> acc, docs |-> docs, raised |-> exc]

\* _load_text_file: read_text, then strip
load_text_file(acc, fpath, source, o) ==
    IF o.extract = "fault" THEN Extracted(acc, <<>>, "ExtractorError")
    ELSE Extracted(acc, <<Document(Strip(o.texts[1]), source, "file", 0)>>, "none")

\* _load_html_file: the text projection of the markup, stripped
load_html_file(acc, fpath, source, o) ==
    IF o.extract = "fault" THEN Extracted(acc, <<>>, "ExtractorError")
    ELSE Extracted(acc, <<Document(Strip(o.texts[1]), source, "file", 0)>>, "none")

\* _load_rtf_file: rtf_to_text, then strip
load_rtf_file(acc, fpath, source, o) ==
    IF o.extract = "fault" THEN Extracted(acc, <<>>, "ExtractorError")
    ELSE Extracted(acc, <<Document(Strip(o.texts[1]), source, "file", 0)>>, "none")

\* _load_pdf_file: one document per page, page = i+1; any fault is caught
\* and logged, and the documents appended before it are returned
load_pdf_file(acc, fpath, source, o) ==
    LET docs == [i \in 1..Len(o.texts) |-> Document(o.texts[i], source, "file", i)]
    IN  IF o.extract = "fault"
        THEN Extracted(
                logMessage(
                    error_logger(acc, [text |-> "read_pdf failed", file |-> fpath],
                                 "read_pdf", "file"),
                    [filename |-> fpath, reason |-> "not_indexed"], "INFO"),
                docs, "none")
        ELSE Extracted(acc, docs, "none")

\* what a delegate loader (Docx2txtLoader, Unstructured*Loader) returns:
\* documents whose source is the downloaded file
DelegateDocs(fpath, o) ==
    [i \in 1..Len(o.texts) |->
        Document(o.texts[i], DownloadPath(fpath), "delegate", 0)]

\* _normalize_docs
normalize_docs(docs, source) ==
    [i \in 1..Len(docs) |-> [docs[i] EXCEPT !.source = source, !.kind = "file"]]

\* _load_docx_file, _load_excel_file, _load_pptx_file, _load_md_file:
\* loader.load(), then _normalize_docs
load_delegate_file(acc, fpath, source, o) ==
    IF o.extract = "fault" THEN Extracted(acc, <<>>, "ExtractorError")
    ELSE Extracted(acc, normalize_docs(DelegateDocs(fpath, o), source), "none")

\* the routines _load_file invokes after a successful download, in order:
\* "if txt", then the chain "if htm/html ... elif ... rtf"
RoutinesWithoutMd(file_extension) ==
    (IF file_extension = "txt" THEN <<"text">> ELSE <<>>)
    \o (IF file_extension \in {"htm", "html"} THEN <<"html">>
        ELSE IF file_extension = "pdf" THEN <<"pdf">>
        ELSE IF file_extension = "docx" THEN <<"docx">>
        ELSE IF file_extension \in {"xlsx", "xls"} THEN <<"excel">>
        ELSE IF file_extension = "pptx" THEN <<"pptx">>
        ELSE IF file_extension = "rtf" THEN <<"rtf">>
        ELSE <<>>)
Routines(file_extension) ==
    (IF file_extension = "txt" THEN <<"text">> ELSE <<>>)
    \o (IF file_extension \in {"htm", "html"} THEN <<"html">>
        ELSE IF file_extension = "pdf" THEN <<"pdf">>
        ELSE IF file_extension = "docx" THEN <<"docx">>
        ELSE IF file_extension \in {"xlsx", "xls"} THEN <<"excel">>
        ELSE IF file_extension = "pptx" THEN <<"pptx">>
        ELSE IF file_extension = "md" THEN <<"md">>
        ELSE IF file_extension = "rtf" THEN <<"rtf">>
        ELSE <<>>)

Extract(routine, acc, fpath, source, o) ==
    CASE routine = "text" -> load_text_file(acc, fpath, source, o)
      [] routine = "html" -> load_html_file(acc, fpath, source, o)
      [] routine = "rtf" -> load_rtf_file(acc, fpath, source, o)
      [] routine = "pdf" -> load_pdf_file(acc, fpath, source, o)
      [] OTHER -> load_delegate_file(acc, fpath, source, o)

\* the routines of rs applied in order, each adding its documents, until one raises
RECURSIVE ExtractAll(_, _, _, _, _)
ExtractAll(rs, acc, fpath, source, o) ==
    IF rs = <<>> THEN [acc |-> acc, docs |-> <<>>, raised |-> "none", calls |-> <<>>]
    ELSE LET r == Extract(Head(rs), acc, fpath, source, o)
             call == [op |-> "extract", routine |-> Head(rs), path |-> fpath,
                      ok |-> o.extract = "ok", docs |-> r.docs]
         IN  IF r.raised # "none"
             THEN [acc |-> r.acc, docs |-> <<>>, raised |-> r.raised, calls |-> <<call>>]
             ELSE LET rest == ExtractAll(Tail(rs), r.acc, fpath, source, o)
                  IN  [acc |-> rest.acc, docs |-> r.docs \o rest.docs,
                       raised |-> rest.raised, calls |-> <<call>> \o rest.calls]

----------------------------------------------------------------------------
(* _load_file: gives [acc, docs, raised, calls] *)

FetchCall(op, fpath, o) == [op |-> op, path |-> fpath, ok |-> o.fetch = "ok"]

\* the exception a result ended with, "none" if it has none
Raised(r) == IF "raised" \in DOMAIN r THEN r.raised ELSE "none"

\* the handler "except dropbox.exceptions.DropboxException as error" of
\* _load_file: logMessage of error.error; reading error.error of an exception
\* without it is an AttributeError, and nothing is logged
FileWarning(acc, fpath, exc) ==
    IF HasError(exc)
    THEN logMessage(acc, [message |-> exc, file |-> fpath], "WARNING")
    ELSE [invalid_files |-> acc.invalid_files, errors |-> acc.errors,
          progress |-> acc.progress, raised |-> AttributeError.type]

load_file(acc, fpath, o) ==
    LET acc1 == logMessage(acc, [text |-> "Processing", file |-> fpath], "DEBUG")
        file_extension == Suffix(fpath.name)
        source == Locate(fpath)
        op == IF file_extension = "paper"
              THEN "files_export_to_file" ELSE "files_download_to_file"
        rs == IF file_extension = "paper" THEN <<"md">> ELSE Routines(file_extension)
    IN  IF file_extension \in ALLOWED_EXTENSIONS
        THEN IF o.fetch \in StorageFaults
             THEN LET h == FileWarning(acc1, fpath, o.fetch)
                  IN  [acc |-> [invalid_files |-> h.invalid_files, errors |-> h.errors,
                                progress |-> h.progress],
                       docs |-> <<>>, raised |-> Raised(h),
                       calls |-> <<FetchCall(op, fpath, o)>>]
             ELSE LET x == ExtractAll(rs, acc1, fpath, source, o)
                  IN  [acc |-> x.acc,
                       docs |-> IF x.raised = "none" THEN StripNullBytes(x.docs) ELSE <<>>,
                       raised |-> x.raised,
                       calls |-> <<FetchCall(op, fpath, o)>> \o x.calls]
        \* self.invalid_files.append() has no argument: a TypeError
        ELSE [acc |-> acc1, docs |-> <<>>, raised |-> "TypeError", calls |-> <<>>]

----------------------------------------------------------------------------
(* Construction *)

\* __init__: the stored targets
ConstructByTruth(folder_arg, list_arg, file_arg) ==
    IF folder_arg.some /\ folder_arg.val # ""
    THEN [folder_path |-> folder_arg, file_paths |-> None, file_path |-> None]
    ELSE IF list_arg.some
    THEN [folder_path |-> None, file_paths |-> list_arg, file_path |-> None]
    ELSE [folder_path |-> None, file_paths |-> None, file_path |-> file_arg]
Construct(folder_arg, list_arg, file_arg) ==
    IF folder_arg.some
    THEN [folder_path |-> folder_arg, file_paths |-> None, file_path |-> None]
    ELSE IF list_arg.some
    THEN [folder_path |-> None, file_paths |-> list_arg, file_path |-> None]
    ELSE [folder_path |-> None, file_paths |-> None, file_path |-> file_arg]

\* the inputs of the constructor
RootFolder == ""
\* the lists handed to file_paths: of a PDF, a text file and an ineligible file
ListPaths == {P_pdf, P_txt, P_exe}
Lists == UNION {[1..n -> ListPaths] : n \in 0..MaxFiles}
Supplied(folder_arg, list_arg, file_arg) ==
    [folder_path |-> folder_arg, file_paths |-> list_arg, file_path |-> file_arg]

\* one target supplied, or none
OneTarget ==
    {Supplied(Some(RootFolder), None, None)}
    \cup {Supplied(None, Some(l), None) : l \in Lists}
    \cup {Supplied(None, None, f) :
            f \in {None} \cup {Some(p) : p \in FilePaths \cup OtherPaths}}

\* every combination of supplied and missing targets
AnyTargets ==
    [folder_path : {None, Some(RootFolder)},
     file_paths : {None, Some(<<P_paper>>)},
     file_path : {None, Some(P_txt)}]

\* targets that take one _load_file at most
ShortTargets ==
    {Supplied(None, Some(<<>>), None), Supplied(None, Some(<<P_pdf>>), None)}
    \cup {Supplied(None, None, f) : f \in {None, Some(P_txt), Some(P_exe)}}

Token(field) ==
    CASE field = "access" -> "legacy-token"
      [] field = "access_token" -> "current-token"
      [] field = "refresh" -> "legacy-refresh"
      [] OTHER -> "current-refresh"
Payload(fields) == [f \in fields |-> Token(f)]
AuthPayloads ==
    {Payload(fields) : fields \in SUBSET {"access", "access_token", "refresh",
                                          "refresh_token"}}
CurrentPayload == Payload({"access_token", "refresh_token"})

\* the loaders explored: any target with the current field names on the
\* personal space, and the short targets with any payload, with or without
\* the app credentials, on either space
Loaders ==
    {<<t, CurrentPayload, FALSE, FALSE>> : t \in OneTarget \cup AnyTargets}
    \cup (ShortTargets \X AuthPayloads \X BOOLEAN \X BOOLEAN)

NoSession == [personal |-> None, team |-> None, use |-> "none"]

\* no logMessage or get_details call was made by the caller since the last load()
NoClientCall ==
    [op |-> "none", message |-> "", level |-> "", out |-> None, raised |-> "none"]

Init ==
    /\ \E l \in Loaders :
          /\ given = l[1]
          /\ auth = l[2]
          /\ app_creds = l[3]
          /\ is_team_folder = l[4]
    /\ LET c == Construct(given.folder_path, given.file_paths, given.file_path)
       IN  /\ folder_path = c.folder_path
           /\ file_paths = c.file_paths
           /\ file_path = c.file_path
    /\ invalid_files = <<>>
    /\ errors = <<>>
    /\ progress = <<>>
    /\ pc = "ready"
    /\ loads = 0
    /\ args = None
    /\ dbx = NoSession
    /\ files = None
    /\ paths = <<>>
    /\ idx = 1
    /\ file_documents = <<>>
    /\ result = None
    /\ raised = "none"
    /\ calls = <<>>
    /\ base = [invalid_files |-> 0, errors |-> 0, progress |-> 0]
    /\ client = NoClientCall

----------------------------------------------------------------------------
(* load() *)

Acc == [invalid_files |-> invalid_files, errors |-> errors, progress |-> progress]

SetAcc(acc) ==
    /\ invalid_files' = acc.invalid_files
    /\ errors' = acc.errors
    /\ progress' = acc.progress

\* what load() leaves alone: the constructor's fields and the caller's own calls
targets == <<given, auth, app_creds, is_team_folder, folder_path, file_paths, file_path,
             client>>
locals == <<args, dbx, files, paths, idx, file_documents>>

\* load() returns docs
Return(docs) ==
    /\ pc' = "ready"
    /\ result' = Some(docs)
    /\ raised' = "none"

\* load() ends with an exception no handler of load() catches
Raise(exc) ==
    /\ pc' = "ready"
    /\ result' = None
    /\ raised' = exc

\* the args of the personal client.  'access', then 'access_token' over it;
\* with app_key and app_secret, 'refresh', then 'refresh_token' over it, and
\* the app credentials.  None: no token field, so args is unbound
Args(token, refresh, creds) ==
    Some([oauth2_access_token |-> token, oauth2_refresh_token |-> refresh,
          app_key |-> creds])
Refresh(a, creds) ==
    IF ~creds THEN None
    ELSE IF "refresh_token" \in DOMAIN a THEN Some(a["refresh_token"])
    ELSE IF "refresh" \in DOMAIN a THEN Some(a["refresh"])
    ELSE None
BuildArgs(a, creds) ==
    IF "access_token" \in DOMAIN a
    THEN Args(a["access_token"], Refresh(a, creds), creds)
    ELSE IF "access" \in DOMAIN a THEN Args(a["access"], Refresh(a, creds), creds)
    ELSE None

\* load() is called: the locals are fresh, args is built from self.auth
LoadStartFresh ==
    /\ pc = "ready"
    /\ loads < MaxLoads
    /\ loads > 0 => raised = "none" /\ Len(progress) <= MaxTrail
    /\ loads' = loads + 1
    /\ args' = BuildArgs(auth, app_creds)
    /\ dbx' = NoSession
    /\ files' = None
    /\ paths' = <<>>
    /\ idx' = 1
    /\ file_documents' = <<>>
    /\ result' = None
    /\ raised' = "none"
    /\ calls' = <<>>
    /\ base' = [invalid_files |-> 0, errors |-> 0, progress |-> 0]
    /\ pc' = "personal"
    /\ client' = NoClientCall
    /\ invalid_files' = <<>>
    /\ errors' = <<>>
    /\ progress' = <<>>
    /\ UNCHANGED <<given, auth, app_creds, is_team_folder, folder_path, file_paths,
                   file_path>>
LoadStart ==
    /\ pc = "ready"
    /\ loads < MaxLoads
    /\ loads > 0 => raised = "none" /\ Len(progress) <= MaxTrail
    /\ loads' = loads + 1
    /\ args' = BuildArgs(auth, app_creds)
    /\ dbx' = NoSession
    /\ files' = None
    /\ paths' = <<>>
    /\ idx' = 1
    /\ file_documents' = <<>>
    /\ result' = None
    /\ raised' = "none"
    /\ calls' = <<>>
    /\ base' = [invalid_files |-> Len(invalid_files), errors |-> Len(errors),
                progress |-> Len(progress)]
    /\ pc' = "personal"
    /\ client' = NoClientCall
    /\ UNCHANGED <<given, auth, app_creds, is_team_folder, folder_path, file_paths,
                   file_path, invalid_files, errors, progress>>

\* {"message": error.error}: the entry a session handler appends to errors
SessionError(exc) ==
    IF HasError(exc) THEN [type |-> "dict", message |-> exc] ELSE AttributeError

\* how the calls of a try block answer: all return, or the call "at" raises exc
SessionAnswers(ats) ==
    {[at |-> "none", exc |-> "none"]}
    \cup {[at |-> at, exc |-> exc] : at \in ats, exc \in StorageFaults}

SessionCall(which, a) ==
    [op |-> "session", which |-> which, ok |-> a.at = "none", at |-> a.at, exc |-> a.exc]

\* where load() is after the handler of a session fault: "return []"
SessionFaultNext(after) == "ready"

\* dbx_personal = dropbox.Dropbox(**args); users_get_current_account();
\* a DropboxException of either is recorded and load() returns [], unless it
\* has no attribute "error": then the handler raises and nothing is recorded
PersonalSession ==
    /\ pc = "personal"
    /\ IF ~args.some
       THEN /\ Raise("UnboundLocalError")
            /\ UNCHANGED <<dbx, errors, calls>>
       ELSE \E a \in SessionAnswers({"Dropbox", "users_get_current_account"}) :
              /\ calls' = Append(calls, SessionCall("personal", a))
              /\ IF a.at = "none"
                 THEN /\ dbx' = [dbx EXCEPT
                                    !.personal = Some(args.val.oauth2_access_token)]
                      /\ pc' = "team"
                      /\ UNCHANGED <<errors, result, raised>>
                 ELSE IF SessionError(a.exc) = AttributeError
                 THEN /\ Raise(AttributeError.type)
                      /\ UNCHANGED <<dbx, errors>>
                 ELSE /\ errors' = Append(errors, SessionError(a.exc))
                      /\ pc' = SessionFaultNext("team")
                      /\ result' = IF pc' = "ready" THEN Some(<<>>) ELSE result
                      /\ UNCHANGED <<dbx, raised>>
    /\ UNCHANGED <<targets, base, invalid_files, progress, loads, args, files, paths,
                   idx, file_documents>>

\* dbx_team = dropbox.Dropbox(oauth2_access_token=self.auth['access_token'], ...):
\* a KeyError without that field; a DropboxException is recorded and load()
\* returns [].  Then dbx = dbx_team if self.is_team_folder else dbx_personal
TeamSession ==
    /\ pc = "team"
    /\ IF "access_token" \notin DOMAIN auth
       THEN /\ Raise("KeyError")
            /\ UNCHANGED <<dbx, errors, calls>>
       ELSE \E a \in SessionAnswers({"Dropbox"}) :
              /\ calls' = Append(calls, SessionCall("team", a))
              /\ IF a.at = "none"
                 THEN /\ dbx' = [dbx EXCEPT !.team = Some(auth["access_token"]),
                                            !.use = IF is_team_folder THEN "team"
                                                    ELSE "personal"]
                      /\ pc' = "dispatch"
                      /\ UNCHANGED <<errors, result, raised>>
                 ELSE IF SessionError(a.exc) = AttributeError
                 THEN /\ Raise(AttributeError.type)
                      /\ UNCHANGED <<dbx, errors>>
                 ELSE /\ errors' = Append(errors, SessionError(a.exc))
                      /\ pc' = SessionFaultNext("dispatch")
                      /\ result' = IF pc' = "ready" THEN Some(<<>>) ELSE result
                      /\ UNCHANGED <<dbx, raised>>
    /\ UNCHANGED <<targets, base, invalid_files, progress, loads, args, files, paths,
                   idx, file_documents>>

\* the target load() goes to: folder_path, else file_paths, else file_path
TargetMode(folder, list, single) ==
    IF folder.some THEN "folder" ELSE IF list.some THEN "list" ELSE "single"

\* load() enters _load_files_from_folder_path or _load_files_from_paths
\* (each logs its first message) or goes on to _load_file
Dispatch ==
    /\ pc = "dispatch"
    /\ LET mode == TargetMode(folder_path, file_paths, file_path)
       IN  CASE mode = "folder" ->
                  /\ SetAcc(logMessage(Acc, [text |-> "Load files from folder path",
                                             folder |-> folder_path.val], "DEBUG"))
                  /\ pc' = "list"
                  /\ paths' = <<>>
             [] mode = "list" ->
                  /\ SetAcc(logMessage(Acc, [text |-> "Load files from file paths",
                                             count |-> Len(file_paths.val)], "DEBUG"))
                  /\ pc' = "load_paths"
                  /\ paths' = file_paths.val
             [] OTHER ->
                  /\ SetAcc(Acc)
                  /\ pc' = "load_single"
                  /\ paths' = <<>>
    /\ UNCHANGED <<targets, base, loads, args, dbx, files, idx, file_documents, result,
                   raised, calls>>

----------------------------------------------------------------------------
(* _load_files_from_folder_path *)

FileEntry(p) == [tag |-> "FileMetadata", name |-> p.name, path_display |-> p]
FolderEntry(p) == [tag |-> "FolderMetadata", name |-> p.name, path_display |-> p]

\* the pages a listing may be made of
Pages ==
    { <<>>,
      <<FolderEntry(Path(<<>>, <<"old", "pdf">>)), FileEntry(P_exe), FileEntry(P_PDF),
        FileEntry(P_pdf)>>,
      <<FileEntry(P_txt), FileEntry(P_paper)>> }

\* "for file in files.entries": the eligible paths appended to file_paths
EligibleOfWithFolders(entries) ==
    LET keep == SelectSeq(entries, LAMBDA e : IsAllowed(e.name))
    IN  [i \in 1..Len(keep) |-> keep[i].path_display]
EligibleOf(entries) ==
    LET keep == SelectSeq(entries,
                    LAMBDA e : e.tag = "FileMetadata" /\ IsAllowed(e.name))
    IN  [i \in 1..Len(keep) |-> keep[i].path_display]

\* "for file in files.entries": the paths appended to self.invalid_files
InvalidOfNothing(entries) == <<>>
InvalidOf(entries) ==
    LET drop == SelectSeq(entries,
                    LAMBDA e : e.tag = "FileMetadata" /\ ~IsAllowed(e.name))
    IN  [i \in 1..Len(drop) |-> drop[i].path_display]

\* the page requests made so far by the running enumeration
Requests == SelectSeq(calls, LAMBDA c : c.op \in {"files_list_folder",
                                                  "files_list_folder_continue"})

\* where load() is after the handler of an enumeration fault: the handler
\* follows the call of _load_files_from_paths, so file_documents, still
\* empty, is returned
EnumerationFaultNext == "ready"

\* the request of one iteration of the while loop
PageRequest(f, folder) ==
    IF ~f.some THEN [op |-> "files_list_folder", folder |-> folder]
    ELSE [op |-> "files_list_folder_continue", cursor |-> f.val.cursor]

\* {"message": error.error, "folder": folder_path}: the entry the handler of
\* _load_files_from_folder_path appends to errors
FolderError(exc, folder) ==
    IF HasError(exc) THEN [type |-> "dict", message |-> exc, folder |-> folder]
    ELSE AttributeError

\* one iteration of "while found_all_records is False": the page request, the
\* entries of the page, and, after the last page, the call of
\* _load_files_from_paths; a request that faults ends in the handler, which
\* records the fault, or raises when the fault has no attribute "error"
ListPage ==
    /\ pc = "list"
    /\ LET n == Len(Requests) + 1
           req == PageRequest(files, folder_path.val)
       IN  \/ \E entries \in Pages, has_more \in BOOLEAN :
                /\ has_more => n < MaxPages
                /\ LET page == [entries |-> entries, cursor |-> n, has_more |-> has_more]
                       found == paths \o EligibleOf(entries)
                       acc1 == [Acc EXCEPT !.invalid_files = @ \o InvalidOf(entries)]
                   IN  /\ files' = Some(page)
                       /\ calls' = Append(calls, req @@ [ok |-> TRUE, page |-> page])
                       /\ paths' = found
                       /\ IF has_more
                          THEN /\ SetAcc(acc1)
                               /\ pc' = "list"
                          ELSE /\ SetAcc(logMessage(acc1,
                                         [text |-> "Load files from file paths",
                                          count |-> Len(found)], "DEBUG"))
                               /\ pc' = "load_paths"
                /\ UNCHANGED <<result, raised>>
           \/ \E exc \in StorageFaults :
                /\ calls' = Append(calls, req @@ [ok |-> FALSE, exc |-> exc])
                /\ IF FolderError(exc, folder_path.val) = AttributeError
                   THEN /\ Raise(AttributeError.type)
                        /\ UNCHANGED errors
                   ELSE /\ errors' = Append(errors, FolderError(exc, folder_path.val))
                        /\ pc' = EnumerationFaultNext
                        /\ result' = IF pc' = "ready" THEN Some(<<>>) ELSE result
                        /\ UNCHANGED raised
                /\ UNCHANGED <<files, paths, invalid_files, progress>>
    /\ UNCHANGED <<targets, base, loads, args, dbx, idx, file_documents>>

----------------------------------------------------------------------------
(* _load_files_from_paths and _load_file *)

\* one iteration of "for file_path in file_paths": _load_file on the next path
LoadNextPrepending ==
    /\ pc = "load_paths"
    /\ idx <= Len(paths)
    /\ \E o \in Outcomes(Suffix(paths[idx].name)) :
          LET r == load_file(Acc, paths[idx], o)
          IN  /\ SetAcc(r.acc)
              /\ calls' = calls \o r.calls
              /\ IF r.raised = "none"
                 THEN /\ file_documents' = r.docs \o file_documents
                      /\ idx' = idx + 1
                      /\ UNCHANGED <<pc, result, raised>>
                 ELSE /\ Raise(r.raised)
                      /\ UNCHANGED <<file_documents, idx>>
    /\ UNCHANGED <<targets, base, loads, args, dbx, files, paths>>
LoadNext ==
    /\ pc = "load_paths"
    /\ idx <= Len(paths)
    /\ \E o \in Outcomes(Suffix(paths[idx].name)) :
          LET r == load_file(Acc, paths[idx], o)
          IN  /\ SetAcc(r.acc)
              /\ calls' = calls \o r.calls
              /\ IF r.raised = "none"
                 THEN /\ file_documents' = file_documents \o r.docs
                      /\ idx' = idx + 1
                      /\ UNCHANGED <<pc, result, raised>>
                 ELSE /\ Raise(r.raised)
                      /\ UNCHANGED <<file_documents, idx>>
    /\ UNCHANGED <<targets, base, loads, args, dbx, files, paths>>

\* the loop is over: _load_files_from_paths returns file_documents, and so
\* do _load_files_from_folder_path and load()
ReturnDocs ==
    /\ pc = "load_paths"
    /\ idx > Len(paths)
    /\ Return(file_documents)
    /\ UNCHANGED <<targets, base, invalid_files, errors, progress, loads, locals, calls>>

\* load() on a single file: return self._load_file(dbx, self.file_path)
LoadSingle ==
    /\ pc = "load_single"
    /\ IF ~file_path.some
       THEN \* "Processing (None)" is logged, then pathlib.Path(None): a TypeError
            /\ SetAcc(logMessage(Acc, [text |-> "Processing", file |-> None], "DEBUG"))
            /\ Raise("TypeError")
            /\ UNCHANGED calls
       ELSE \E o \in Outcomes(Suffix(file_path.val.name)) :
              LET r == load_file(Acc, file_path.val, o)
              IN  /\ SetAcc(r.acc)
                  /\ calls' = calls \o r.calls
                  /\ IF r.raised = "none" THEN Return(r.docs) ELSE Raise(r.raised)
    /\ UNCHANGED <<targets, base, loads, locals>>

----------------------------------------------------------------------------
(* The caller's own calls of the public methods: one such call at most     *)
(* after each load() call                                                  *)

\* the messages and levels the caller logs with ("ERROR": a level that
\* LogStatement does not accept)
Messages == {"note"}
Levels == {"INFO", "DEBUG", "WARNING", "ERROR"}

\* a call of the caller: what it returned (None for logMessage), and the
\* exception it ended with instead, "none" if it returned
ClientCall(op, message, level, out, exc) ==
    [op |-> op, message |-> message, level |-> level, out |-> out, raised |-> exc]

\* loader.logMessage(message, level): with a level LogStatement rejects, the
\* ValidationError reaches the caller and nothing was appended
LogMessage ==
    /\ pc = "ready"
    /\ loads > 0
    /\ client.op = "none"
    /\ \E message \in Messages, level \in Levels :
          LET r == logMessage(Acc, message, level)
          IN  /\ SetAcc(r)
              /\ client' = ClientCall("logMessage", message, level, None, Raised(r))
    /\ UNCHANGED <<given, auth, app_creds, is_team_folder, folder_path, file_paths,
                   file_path, base, loads, locals, result, raised, calls, pc>>

\* _filtered_statements_by_level
filtered_statements_by_level(trail, level) ==
    SelectSeq(trail, LAMBDA statement : statement.level = level)

\* get_details: the pair it returns
get_details(acc, level) ==
    IF level = "INFO"
    THEN <<filtered_statements_by_level(acc.progress, level), acc.errors>>
    ELSE <<acc.progress, acc.errors>>

\* loader.get_details(level)
GetDetails ==
    /\ pc = "ready"
    /\ loads > 0
    /\ client.op = "none"
    /\ \E level \in {"INFO", "DEBUG"} :
          client' = ClientCall("get_details", "", level,
                               Some(get_details(Acc, level)), "none")
    /\ UNCHANGED <<given, auth, app_creds, is_team_folder, folder_path, file_paths,
                   file_path, base, loads, locals, result, raised, calls, pc,
                   invalid_files, errors, progress>>

----------------------------------------------------------------------------

Next ==
    \/ LoadStart
    \/ PersonalSession
    \/ TeamSession
    \/ Dispatch
    \/ ListPage
    \/ LoadNext
    \/ ReturnDocs
    \/ LoadSingle

Spec == Init /\ [][Next]_vars

\* load() calls interleaved with the caller's logMessage and get_details calls
NextClient ==
    \/ Next
    \/ LogMessage
    \/ GetDetails

\* the loaders whose caller makes calls of its own: the root folder and the
\* short targets, with the current field names on the personal space
ClientTargets == ShortTargets \cup {Supplied(Some(RootFolder), None, None)}

InitClient ==
    /\ Init
    /\ given \in ClientTargets
    /\ auth = CurrentPayload
    /\ ~app_creds
    /\ ~is_team_folder

ClientSpec == InitClient /\ [][NextClient]_vars

----------------------------------------------------------------------------
(* What the properties below are stated over *)

Range(seq) == {seq[i] : i \in 1..Len(seq)}

RECURSIVE Flatten(_)
Flatten(seqs) == IF seqs = <<>> THEN <<>> ELSE Head(seqs) \o Flatten(Tail(seqs))

\* a load() has been called and has ended, by a return or by an exception
Ended == pc = "ready" /\ loads > 0

\* the download and export calls, and the extraction calls, of the load()
Fetches == SelectSeq(calls, LAMBDA c : c.op \in {"files_download_to_file",
                                                 "files_export_to_file"})
Extracts == SelectSeq(calls, LAMBDA c : c.op = "extract")
PathsOf(cs) == [i \in 1..Len(cs) |-> cs[i].path]

\* what the load() has appended to errors and to invalid_files
NewErrors == SubSeq(errors, base.errors + 1, Len(errors))
NewInvalid == SubSeq(invalid_files, base.invalid_files + 1, Len(invalid_files))

\* an entry of errors logged at WARNING level for the file p
IsFileWarning(e, p) ==
    /\ e.type = "LogStatement"
    /\ e.level = "WARNING"
    /\ "file" \in DOMAIN e.message
    /\ e.message.file = p

\* a text with a space wherever t has a null byte, and t's character elsewhere
IsNullReplaced(t, u) ==
    /\ Len(u) = Len(t)
    /\ \A i \in 1..Len(t) : u[i] = IF t[i] = NUL THEN " " ELSE t[i]

\* the documents ds, unchanged but for the null bytes of their contents
AreNullReplaced(ds, rs) ==
    /\ Len(rs) = Len(ds)
    /\ \A i \in 1..Len(ds) :
          /\ IsNullReplaced(ds[i].page_content, rs[i].page_content)
          /\ rs[i].source = ds[i].source
          /\ rs[i].kind = ds[i].kind
          /\ rs[i].page = ds[i].page

\* the documents the extraction calls produced, in call order
ExtractedDocs == Flatten([i \in 1..Len(Extracts) |-> Extracts[i].docs])

\* the pages the enumeration was given
ListedPages ==
    LET got == SelectSeq(Requests, LAMBDA c : c.ok)
    IN  [i \in 1..Len(got) |-> got[i].page]

\* the enumeration of the load() ran to a page without continuation
EnumerationDone ==
    /\ Requests # <<>>
    /\ \A i \in 1..Len(Requests) : Requests[i].ok
    /\ ~Requests[Len(Requests)].page.has_more

\* the file entries of the listed pages whose extension is on the allow-list,
\* in page order then entry order
ListedEligible ==
    LET all == Flatten([i \in 1..Len(ListedPages) |-> ListedPages[i].entries])
        keep == SelectSeq(all, LAMBDA e : /\ e.tag = "FileMetadata"
                                          /\ Suffix(e.name) \in ALLOWED_EXTENSIONS)
    IN  [i \in 1..Len(keep) |-> keep[i].path_display]

FailedFetches == {i \in 1..Len(Fetches) : ~Fetches[i].ok}

----------------------------------------------------------------------------
(* C1 *)

\* a folder load has ended whose enumeration gave at least one eligible file,
\* with exactly one download fault and no extraction fault
OneDownloadFailed ==
    /\ Ended
    /\ folder_path.some
    /\ EnumerationDone
    /\ Len(paths) >= 1
    /\ Cardinality(FailedFetches) = 1
    /\ \A i \in 1..Len(Extracts) : Extracts[i].ok

\* C1: partial-failure isolation.  When a folder load in which exactly one
\* download faulted (and nothing else did) ends, it has returned; every
\* enumerated file was fetched, all but the failed one were extracted, the
\* result is the documents of those files, and the load added exactly one
\* entry to errors, a WARNING that names the failed path.
PartialFailureIsolation ==
    OneDownloadFailed =>
        LET f == CHOOSE i \in FailedFetches : TRUE
        IN  /\ result.some
            /\ PathsOf(Fetches) = paths
            /\ PathsOf(Extracts) =
                   SubSeq(paths, 1, f - 1) \o SubSeq(paths, f + 1, Len(paths))
            /\ AreNullReplaced(ExtractedDocs, result.val)
            /\ Len(NewErrors) = 1
            /\ IsFileWarning(NewErrors[1], paths[f])

----------------------------------------------------------------------------
(* C2 *)

\* C2: extraction-failure isolation.  When a list or folder load in which an
\* extraction routine faulted ends, it has returned, every path of the
\* sequence was fetched, and each file whose extraction faulted gave no
\* document and has a WARNING entry in errors.
ExtractionFaultIsolated ==
    (/\ Ended
     /\ folder_path.some \/ file_paths.some
     /\ \E i \in 1..Len(Extracts) : ~Extracts[i].ok)
    => /\ result.some
       /\ PathsOf(Fetches) = paths
       /\ \A i \in 1..Len(Extracts) :
             ~Extracts[i].ok =>
                /\ Extracts[i].docs = <<>>
                /\ \E j \in 1..Len(NewErrors) : IsFileWarning(NewErrors[j], Extracts[i].path)

----------------------------------------------------------------------------
(* C3 *)

\* the paths the load() was asked to load: the file, the list, or the file
\* entries of the listed pages
Offered ==
    IF folder_path.some
    THEN LET all == Flatten([i \in 1..Len(ListedPages) |-> ListedPages[i].entries])
             fs == SelectSeq(all, LAMBDA e : e.tag = "FileMetadata")
         IN  [i \in 1..Len(fs) |-> fs[i].path_display]
    ELSE IF file_paths.some THEN file_paths.val
    ELSE IF file_path.some THEN <<file_path.val>>
    ELSE <<>>

\* C3: in every target mode, when a load() that was offered a path with an
\* extension outside the allow-list ends, it has returned, the path is in
\* invalid_files, no document has it as origin and it was not fetched.
InvalidFilesRecorded ==
    (Ended /\ (folder_path.some => EnumerationDone)) =>
        \A p \in Range(Offered) :
            Suffix(p.name) \notin ALLOWED_EXTENSIONS =>
                /\ result.some
                /\ p \in Range(NewInvalid)
                /\ \A i \in 1..Len(result.val) : result.val[i].source # Locate(p)
                /\ p \notin Range(PathsOf(Fetches))

----------------------------------------------------------------------------
(* C4 *)

\* C4: pagination.  The first page request names the folder and every later
\* one carries the cursor of the page before it; a request is made only
\* after a page with has_more (never after the last page or a fault); the
\* paths gathered are the eligible file entries of the listed pages, in page
\* order then entry order, once each; and per-file loading starts only when a
\* page without continuation has been listed.
PaginationCorrect ==
    /\ \A i \in 1..Len(Requests) :
          /\ IF i = 1
             THEN /\ Requests[i].op = "files_list_folder"
                  /\ Requests[i].folder = folder_path.val
             ELSE /\ Requests[i].op = "files_list_folder_continue"
                  /\ Requests[i].cursor = Requests[i - 1].page.cursor
          /\ i < Len(Requests) => Requests[i].ok /\ Requests[i].page.has_more
    /\ folder_path.some => paths = ListedEligible
    /\ (folder_path.some /\ (pc = "load_paths" \/ Fetches # <<>>)) => EnumerationDone

\* two pages were listed, with a directory, an ineligible and eligible files
PaginationWitness ==
    /\ pc = "load_paths"
    /\ folder_path.some
    /\ Len(ListedPages) = 2
    /\ Len(paths) = 2
    /\ invalid_files # <<>>
    /\ \E i \in 1..2 : \E j \in 1..Len(ListedPages[i].entries) :
          ListedPages[i].entries[j].tag = "FolderMetadata"

----------------------------------------------------------------------------
(* C5 *)

SessionCalls == SelectSeq(calls, LAMBDA c : c.op = "session")

\* establishing the personal or the team session faulted in the load()
SessionFailed == \E i \in 1..Len(SessionCalls) : ~SessionCalls[i].ok

\* C5: session failure short-circuit.  A load() in which establishing the
\* personal or the team session faulted has returned an empty sequence, has
\* added exactly one entry to errors, and has made no list, download, export
\* or extraction call.
SessionFailureShortCircuit ==
    SessionFailed =>
        /\ Ended
        /\ result = Some(<<>>)
        /\ Len(NewErrors) = 1
        /\ NewErrors[1].type = "dict"
        /\ Requests = <<>>
        /\ Fetches = <<>>
        /\ Extracts = <<>>

----------------------------------------------------------------------------
(* C6 *)

\* a folder load has ended in which a page request faulted
EnumerationFaulted ==
    /\ Ended
    /\ folder_path.some
    /\ \E i \in 1..Len(Requests) : ~Requests[i].ok

\* exactly one entry was added to errors, a dict that carries the folder path
OneFolderError ==
    /\ Len(NewErrors) = 1
    /\ NewErrors[1].type = "dict"
    /\ "folder" \in DOMAIN NewErrors[1]
    /\ NewErrors[1].folder = folder_path.val

\* C6: after an enumeration fault the load() has returned, one
\* ErrorRecord carries the folder path, and the eligible paths of the pages
\* listed before the fault were loaded and their documents returned.
EnumerationFaultKeepsPartial ==
    EnumerationFaulted =>
        /\ result.some
        /\ OneFolderError
        /\ PathsOf(Fetches) = ListedEligible
        /\ AreNullReplaced(ExtractedDocs, result.val)

----------------------------------------------------------------------------
(* C7 *)

HasNull(t) == \E i \in 1..Len(t) : t[i] = NUL

\* C7: null-byte stripping.  No document that _load_file has handed back, in
\* the result of load() or gathered so far by the loop, holds a null byte;
\* the documents are those the extraction routines produced, in order, each
\* null byte replaced by one space and nothing else changed.
NullBytesStripped ==
    /\ \A i \in 1..Len(file_documents) : ~HasNull(file_documents[i].page_content)
    /\ result.some =>
          /\ \A i \in 1..Len(result.val) : ~HasNull(result.val[i].page_content)
          /\ ~SessionFailed /\ ~EnumerationFaulted =>
                AreNullReplaced(ExtractedDocs, result.val)
    /\ (pc = "load_paths" /\ loads > 0) => AreNullReplaced(ExtractedDocs, file_documents)

\* a load() returned documents whose extracted contents held null bytes
NullBytesWitness ==
    /\ Ended
    /\ result.some
    /\ Len(result.val) >= 2
    /\ \E i \in 1..Len(ExtractedDocs) : HasNull(ExtractedDocs[i].page_content)
    /\ \E i \in 1..Len(Extracts) : Extracts[i].routine = "text" /\ Extracts[i].ok

----------------------------------------------------------------------------
(* C8 *)

\* str.lower() on the extensions that occur; the loader never calls it
Lower(s) ==
    CASE s = "PDF" -> "pdf"
      [] s = "Docx" -> "docx"
      [] OTHER -> s

\* C8 as stated: eligibility is decided on the lower-cased extension.  A path
\* whose lower-cased extension is on the allow-list is never put in
\* invalid_files, and a load() offered such a path fetches it.
EligibilityIgnoresCase ==
    /\ \A i \in 1..Len(invalid_files) :
          Lower(Suffix(invalid_files[i].name)) \notin ALLOWED_EXTENSIONS
    /\ (Ended /\ ~SessionFailed /\ (folder_path.some => EnumerationDone)
          /\ raised \notin {"KeyError", "UnboundLocalError", "ExtractorError"}) =>
          \A p \in Range(Offered) :
              Lower(Suffix(p.name)) \in ALLOWED_EXTENSIONS =>
                  p \in Range(PathsOf(Fetches))

----------------------------------------------------------------------------
(* C9 *)

\* C9 as stated: with the access token under either field name, a load() in
\* which no session call faulted gets past both sessions: both clients are
\* set up, the personal one with the token of the current name when both are
\* present, and the load() does not end in a KeyError or UnboundLocalError.
BothTokenNamesAccepted ==
    (Ended /\ {"access", "access_token"} \cap DOMAIN auth # {} /\ ~SessionFailed) =>
        /\ raised \notin {"KeyError", "UnboundLocalError"}
        /\ dbx.personal = Some(IF "access_token" \in DOMAIN auth
                               THEN auth["access_token"] ELSE auth["access"])
        /\ dbx.team.some

----------------------------------------------------------------------------
(* C10 *)

Supplies(t) ==
    {k \in {"folder_path", "file_paths", "file_path"} : t[k].some}

\* C10: target-mode selection.  At most one stored target is non-null: the
\* folder if one was supplied (the empty string included), else the list if
\* one was supplied, else the single file; and load() works on that target
\* only: page requests are made in folder mode alone, and every path fetched
\* is one the enumeration listed (folder), one of the list (list), or the
\* single file.
TargetSelection ==
    /\ Cardinality({k \in {1, 2, 3} : <<folder_path, file_paths, file_path>>[k].some}) <= 1
    /\ folder_path = given.folder_path
    /\ file_paths = IF given.folder_path.some THEN None ELSE given.file_paths
    /\ file_path = IF given.folder_path.some \/ given.file_paths.some
                   THEN None ELSE given.file_path
    /\ Requests # <<>> => given.folder_path.some
    /\ \A i \in 1..Len(Fetches) :
          IF given.folder_path.some
          THEN Fetches[i].path \in Range(ListedEligible)
          ELSE IF given.file_paths.some
          THEN Fetches[i].path \in Range(given.file_paths.val)
          ELSE given.file_path = Some(Fetches[i].path)

\* a loader given the root folder "", a list and a file has loaded the folder,
\* whose listing had neither the path of the list nor the single file
TargetSelectionWitness ==
    /\ Ended
    /\ Supplies(given) = {"folder_path", "file_paths", "file_path"}
    /\ given.folder_path.val = ""
    /\ result.some
    /\ Len(Fetches) >= 1
    /\ given.file_path.val \notin Range(PathsOf(Fetches))
    /\ \A p \in Range(given.file_paths.val) : p \notin Range(PathsOf(Fetches))

----------------------------------------------------------------------------
(* C11 *)

\* this step is a logMessage call of the caller with one of the levels of a
\* log entry
CallerLogs ==
    /\ client.op = "none"
    /\ client'.op = "logMessage"
    /\ client'.level \in {"INFO", "DEBUG", "WARNING"}

WarningsOf(trail) == SelectSeq(trail, LAMBDA e : e.level = "WARNING")
StatementsOf(es) == SelectSeq(es, LAMBDA e : e.type = "LogStatement")

\* C11: a logMessage(message, level) call, for every level of a log entry
\* (INFO, DEBUG, WARNING), returns after it has appended the one entry
\* (message, level) at the end of progress, and the same entry at the end of
\* errors if and only if the level is WARNING; it leaves the entries already
\* there and invalid_files as they are; so, over all the calls made by the
\* caller and by load(), the statements of errors are the WARNING entries of
\* progress, in order
AccumulatorLogging ==
    /\ [](StatementsOf(errors) = WarningsOf(progress))
    /\ [][CallerLogs =>
            LET entry == [type |-> "LogStatement", message |-> client'.message,
                          level |-> client'.level]
            IN  /\ client'.raised = "none"
                /\ progress' = Append(progress, entry)
                /\ errors' = IF client'.level = "WARNING"
                             THEN Append(errors, entry) ELSE errors
                /\ invalid_files' = invalid_files]_vars

\* the caller logged a WARNING on accumulators that held entries of a load()
\* already, an error among them
AccumulatorLoggingWitness ==
    /\ client.op = "logMessage"
    /\ client.level = "WARNING"
    /\ client.raised = "none"
    /\ Len(progress) > 1
    /\ Len(errors) > 1
    /\ invalid_files # <<>>

----------------------------------------------------------------------------
(* C12 *)

\* the routine the extension is to be routed to
RoutineFor(ext) ==
    CASE ext = "txt" -> "text"
      [] ext \in {"htm", "html"} -> "html"
      [] ext = "pdf" -> "pdf"
      [] ext = "docx" -> "docx"
      [] ext \in {"xls", "xlsx"} -> "excel"
      [] ext = "pptx" -> "pptx"
      [] ext \in {"md", "paper"} -> "md"
      [] ext = "rtf" -> "rtf"
      [] OTHER -> "none"

IsFetch(c) == c.op \in {"files_download_to_file", "files_export_to_file"}

\* the extensions fetched successfully so far by the running load()
FetchedExtensions ==
    {Suffix(calls[i].path.name) : i \in {j \in 1..Len(calls) : IsFetch(calls[j]) /\ calls[j].ok}}

\* C12: a successful fetch of a file with an extension of the allow-list is
\* followed by the invocation of exactly one extraction routine, on that
\* file, and the routine is the one the extension alone determines; a fetch
\* that faults is followed by none
RoutingTotal ==
    \A i \in 1..Len(calls) :
        IsFetch(calls[i]) =>
            LET ext == Suffix(calls[i].path.name)
                next == IF i < Len(calls) THEN calls[i + 1] ELSE [op |-> "none"]
                after == IF i + 1 < Len(calls) THEN calls[i + 2] ELSE [op |-> "none"]
            IN  /\ ext \in ALLOWED_EXTENSIONS
                /\ IF calls[i].ok
                   THEN /\ next.op = "extract"
                        /\ next.path = calls[i].path
                        /\ next.routine = RoutineFor(ext)
                        /\ after.op # "extract"
                   ELSE next.op # "extract"

\* a load() fetched an exported document and a plain text file, and each went
\* to its routine
RoutingWitness ==
    /\ Ended
    /\ {"paper", "txt"} \subseteq FetchedExtensions
    /\ Len(Extracts) = Cardinality({i \in 1..Len(calls) : IsFetch(calls[i]) /\ calls[i].ok})

----------------------------------------------------------------------------
(* C13 *)

\* the PDF extractions of the running load() that faulted
FaultedPdfs ==
    {i \in 1..Len(Extracts) : Extracts[i].routine = "pdf" /\ ~Extracts[i].ok}

\* the WARNING entry _load_pdf_file records for the file p
IsPdfWarning(e, p) ==
    /\ e.type = "LogStatement"
    /\ e.level = "WARNING"
    /\ "action" \in DOMAIN e.message
    /\ e.message.file = p
    /\ e.message.action = "read_pdf"

\* C13: a PDF whose extraction faults, on opening or at any page, gives no
\* record to the result of load(), not even those of the pages read before
\* the fault; a WARNING entry is recorded for it and load() goes on to the
\* next path and returns
PdfFaultYieldsNothing ==
    Ended /\ FaultedPdfs # {} /\ raised = "none" =>
        /\ \A i \in FaultedPdfs :
              /\ Extracts[i].docs = <<>>
              /\ \E k \in 1..Len(NewErrors) : IsPdfWarning(NewErrors[k], Extracts[i].path)
        /\ result.some
        /\ result.val = StripNullBytes(
              Flatten([i \in 1..Len(Extracts) |->
                          IF i \in FaultedPdfs THEN <<>> ELSE Extracts[i].docs]))

----------------------------------------------------------------------------
(* C14 *)

IsPrefix(a, b) == Len(a) <= Len(b) /\ SubSeq(b, 1, Len(a)) = a

\* C14: invalid_files, errors and progress are empty after construction, and
\* every step of load(), of logMessage and of get_details, in a first load()
\* or a later one, leaves each of them a prefix of its new value: nothing is
\* cleared, shortened or reordered.  (Prefix is transitive, so the value at
\* any earlier moment is a prefix of the value at any later one.)
AccumulatorsOnlyGrow ==
    /\ (invalid_files = <<>> /\ errors = <<>> /\ progress = <<>>)
    /\ [][/\ IsPrefix(invalid_files, invalid_files')
          /\ IsPrefix(errors, errors')
          /\ IsPrefix(progress, progress')]_vars

\* a second load() on a loader that held entries of the first load() in all
\* three accumulators has added to them, and the caller has read the details
AccumulatorsWitness ==
    /\ Ended
    /\ loads = 2
    /\ base.invalid_files > 0 /\ Len(invalid_files) > base.invalid_files
    /\ base.errors > 0 /\ Len(errors) > base.errors
    /\ base.progress > 0 /\ Len(progress) > base.progress
    /\ client.op = "get_details"

----------------------------------------------------------------------------
(* C15 *)

\* the fetch and extraction calls of the running load(), in the order made
FileCalls == SelectSeq(calls, LAMBDA c : IsFetch(c) \/ c.op = "extract")

\* cs is made of the calls for the paths ps, one path after the other: the
\* fetch of a path, then its extraction if there is one, then the next path
RECURSIVE OneAtATime(_, _)
OneAtATime(cs, ps) ==
    IF cs = <<>> THEN TRUE
    ELSE /\ ps # <<>>
         /\ IsFetch(cs[1])
         /\ cs[1].path = ps[1]
         /\ IF Len(cs) >= 2 /\ cs[2].op = "extract"
            THEN /\ cs[2].path = ps[1]
                 /\ OneAtATime(SubSeq(cs, 3, Len(cs)), Tail(ps))
            ELSE OneAtATime(Tail(cs), Tail(ps))

\* the load() is one of a list or of a folder
OverPaths == loads > 0 /\ TargetMode(folder_path, file_paths, file_path) # "single"

\* the load() has gone through all its paths and returned
ReturnedAll == Ended /\ OverPaths /\ result.some /\ idx > Len(paths)

\* C15: over the paths of a list or of an enumerated folder, the files are
\* fetched and extracted one at a time in the order of the paths, and the
\* result of a load() that went through all of them is the concatenation of
\* the files' records in that order, each file's records in the order its
\* extractor gave them (a file without records adds nothing)
RecordsInPathOrder ==
    OverPaths =>
        /\ Len(Fetches) <= Len(paths)
        /\ OneAtATime(FileCalls, paths)
        /\ ReturnedAll =>
              /\ Len(Fetches) = Len(paths)
              /\ AreNullReplaced(ExtractedDocs, result.val)

\* three files of a folder: one gave no record, the others three or more
RecordsInPathOrderWitness ==
    /\ ReturnedAll
    /\ Len(paths) >= 3
    /\ \E i, j \in 1..Len(Extracts) :
          /\ i < j
          /\ Len(Extracts[i].docs) >= 2
          /\ Len(Extracts[j].docs) >= 1
    /\ FailedFetches # {}

----------------------------------------------------------------------------
(* C16 *)

IsPageRequest(c) == c.op \in {"files_list_folder", "files_list_folder_continue"}

\* the file entries of the listed pages whose extension is not on the
\* allow-list, in page order then entry order
ListedInvalid ==
    LET all == Flatten([i \in 1..Len(ListedPages) |-> ListedPages[i].entries])
        drop == SelectSeq(all, LAMBDA e : /\ e.tag = "FileMetadata"
                                          /\ Suffix(e.name) \notin ALLOWED_EXTENSIONS)
    IN  [i \in 1..Len(drop) |-> drop[i].path_display]

\* a page request of the running load() has faulted
PageRequestFaulted == \E i \in 1..Len(Requests) : ~Requests[i].ok

\* C16: in folder mode every download or export call comes after the whole
\* enumeration, that is after every page request, the last of which gave a
\* page without continuation; so a load() with a faulted page request makes
\* no download or export call at all, while the invalid paths of the pages
\* listed before the fault are in invalid_files
FetchOnlyAfterEnumeration ==
    loads > 0 /\ folder_path.some =>
        /\ Fetches # <<>> =>
              /\ EnumerationDone
              /\ SelectSeq(calls, LAMBDA c : IsPageRequest(c) \/ IsFetch(c))
                    = Requests \o Fetches
        /\ PageRequestFaulted =>
              /\ Fetches = <<>>
              /\ NewInvalid = ListedInvalid

\* a page with an eligible and an ineligible file was listed, and then the
\* request of the next page faulted
FetchOnlyAfterEnumerationWitness ==
    /\ Ended
    /\ folder_path.some
    /\ PageRequestFaulted
    /\ ListedEligible # <<>>
    /\ ListedInvalid # <<>>
    /\ NewInvalid # <<>>

====
